---- MODULE Spec2Model ----
(***************************************************************************)
(* A model of the HubSpot writer: the request-dispatch core of             *)
(* src/src/client.py (run, get_factory, the process_requests of every      *)
(* handler class, batched, make_request, make_batch_request, the error     *)
(* writer) and the entry point of src/src/component.py (Component.run,     *)
(* validate_user_input, _construct_request_body).                          *)
(*                                                                         *)
(* One behaviour is one run: Init draws the entry point, the endpoint name *)
(* and the input rows; the remote API and the network are the environment  *)
(* and answer every attempt nondeterministically.                          *)
(***************************************************************************)
EXTENDS Integers, Sequences, FiniteSets, TLC

(***************************************************************************)
(* Bounds of the model.                                                    *)
(***************************************************************************)
\* batch_size of batched(); the source's BATCH_SIZE is 100 (client.py:19),
\* scaled down so that full batches and a tail batch occur.
BATCH_SIZE == 2
\* longest input of an operation other than contact_create
MaxRows == 3
\* longest input of contact_create (three batches: 2, 2 and 1 rows)
MaxStreamRows == 5
\* longest `errors` array of a 207 response
MaxBatchErrors == 2
\* most input tables of Component.run
MaxTables == 1

(***************************************************************************)
(* Program constants.                                                      *)
(***************************************************************************)
\* Retry(total=5)
RETRY_TOTAL == 5
\* Retry(status_forcelist=[500, 502, 503, 504, 521])
status_forcelist == {500, 502, 503, 504, 521}
\* Retry(allowed_methods=frozenset(['POST', 'PUT', 'DELETE'])); requests
\* upper-cases the method, the model keeps the lower-case spelling of
\* ENDPOINT_MAPPING
allowed_methods == {"post", "put", "delete"}
\* urllib3's Retry.RETRY_AFTER_STATUS_CODES, honoured because
\* respect_retry_after_header is left at its default
RETRY_AFTER_STATUS_CODES == {413, 429, 503}
ERRORS_TABLE_COLUMNS == <<"status", "category", "message", "context">>

\* Python's None: what csv.DictReader gives for a column a short line lacks,
\* and what dict.get gives for an absent key
NoneVal == "<None>"

Range(s) == {s[i] : i \in DOMAIN s}
Min(a, b) == IF a < b THEN a ELSE b

\* str(v)
Str(v) == IF v = NoneVal THEN "None" ELSE v
\* `not v` of a csv value: the empty string and None are falsy
Falsy(v) == v = "" \/ v = NoneVal

(***************************************************************************)
(* endpoint_mapping.py                                                     *)
(***************************************************************************)
ENDPOINT_MAPPING ==
    ("contact_create" :>
           [endpoint |-> "crm/v3/objects/contacts/batch/create",
            required_column |-> <<>>, method |-> "post"])
    @@ ("list_create" :>
           [endpoint |-> "contacts/v1/lists",
            required_column |-> <<"name">>, method |-> "post"])
    @@ ("contact_add_to_list" :>
           [endpoint |-> "contacts/v1/lists/{list_id}/add",
            required_column |-> <<"list_id", "vids", "emails">>, method |-> "post"])
    @@ ("contact_remove_from_list" :>
           [endpoint |-> "contacts/v1/lists/{list_id}/remove",
            required_column |-> <<"list_id", "vids">>, method |-> "post"])
    @@ ("contact_update" :>
           [endpoint |-> "crm/v3/objects/contacts/batch/update",
            required_column |-> <<"vid">>, method |-> "post"])
    @@ ("contact_update_by_email" :>
           [endpoint |-> "contacts/v1/contact/email/{email}/profile",
            required_column |-> <<"email">>, method |-> "post"])
    @@ ("company_create" :>
           [endpoint |-> "crm/v3/objects/companies/batch/create",
            required_column |-> <<"name">>, method |-> "post"])
    @@ ("company_update" :>
           [endpoint |-> "crm/v3/objects/companies/batch/update",
            required_column |-> <<"company_id">>, method |-> "post"])
    @@ ("company_remove" :>
           [endpoint |-> "crm/v3/objects/companies/batch/archive",
            required_column |-> <<"company_id">>, method |-> "post"])
    @@ ("deal_create" :>
           [endpoint |-> "crm/v3/objects/deals/batch/create",
            required_column |-> <<"hubspot_owner_id">>, method |-> "post"])
    @@ ("deal_update" :>
           [endpoint |-> "crm/v3/objects/deals/batch/update",
            required_column |-> <<"deal_id">>, method |-> "post"])
    @@ ("deal_remove" :>
           [endpoint |-> "crm/v3/objects/deals/batch/archive",
            required_column |-> <<"deal_id">>, method |-> "post"])
    @@ ("ticket_create" :>
           [endpoint |-> "crm/v3/objects/tickets/batch/create",
            required_column |-> <<"association_id", "association_category", "association_type_id">>,
            method |-> "post"])
    @@ ("ticket_update" :>
           [endpoint |-> "crm/v3/objects/tickets/batch/update",
            required_column |-> <<"ticket_id">>, method |-> "post"])
    @@ ("ticket_remove" :>
           [endpoint |-> "crm/v3/objects/tickets/batch/archive",
            required_column |-> <<"ticket_id">>, method |-> "post"])
    @@ ("product_create" :>
           [endpoint |-> "crm/v3/objects/products/batch/create",
            required_column |-> <<"association_id", "association_category", "association_type_id">>,
            method |-> "post"])
    @@ ("product_update" :>
           [endpoint |-> "crm/v3/objects/products/batch/update",
            required_column |-> <<"product_id">>, method |-> "post"])
    @@ ("product_remove" :>
           [endpoint |-> "crm/v3/objects/products/batch/archive",
            required_column |-> <<"product_id">>, method |-> "post"])
    @@ ("quote_create" :>
           [endpoint |-> "crm/v3/objects/quotes/batch/create",
            required_column |-> <<"association_id", "association_category", "association_type_id">>,
            method |-> "post"])
    @@ ("quote_update" :>
           [endpoint |-> "crm/v3/objects/quotes/batch/update",
            required_column |-> <<"quote_id">>, method |-> "post"])
    @@ ("quote_remove" :>
           [endpoint |-> "crm/v3/objects/quotes/batch/archive",
            required_column |-> <<"quote_id">>, method |-> "post"])
    @@ ("line_item_create" :>
           [endpoint |-> "crm/v3/objects/line_items/batch/create",
            required_column |-> <<"association_id", "association_category", "association_type_id">>,
            method |-> "post"])
    @@ ("line_item_update" :>
           [endpoint |-> "crm/v3/objects/line_items/batch/update",
            required_column |-> <<"line_item_id">>, method |-> "post"])
    @@ ("line_item_remove" :>
           [endpoint |-> "crm/v3/objects/line_items/batch/archive",
            required_column |-> <<"line_item_id">>, method |-> "post"])
    @@ ("tax_create" :>
           [endpoint |-> "crm/v3/objects/taxes/batch/create",
            required_column |-> <<"association_id", "association_category", "association_type_id">>,
            method |-> "post"])
    @@ ("tax_update" :>
           [endpoint |-> "crm/v3/objects/taxes/batch/update",
            required_column |-> <<"tax_id">>, method |-> "post"])
    @@ ("tax_remove" :>
           [endpoint |-> "crm/v3/objects/taxes/batch/archive",
            required_column |-> <<"tax_id">>, method |-> "post"])
    @@ ("call_create" :>
           [endpoint |-> "crm/v3/objects/calls/batch/create",
            required_column |-> <<"association_id", "association_category", "association_type_id">>,
            method |-> "post"])
    @@ ("call_update" :>
           [endpoint |-> "crm/v3/objects/calls/batch/update",
            required_column |-> <<"call_id">>, method |-> "post"])
    @@ ("call_remove" :>
           [endpoint |-> "crm/v3/objects/calls/batch/archive",
            required_column |-> <<"call_id">>, method |-> "post"])
    @@ ("communication_create" :>
           [endpoint |-> "crm/v3/objects/communications/batch/create",
            required_column |-> <<"association_id", "association_category", "association_type_id">>,
            method |-> "post"])
    @@ ("communication_update" :>
           [endpoint |-> "crm/v3/objects/communications/batch/update",
            required_column |-> <<"communication_id">>, method |-> "post"])
    @@ ("communication_remove" :>
           [endpoint |-> "crm/v3/objects/communications/batch/archive",
            required_column |-> <<"communication_id">>, method |-> "post"])
    @@ ("email_create" :>
           [endpoint |-> "crm/v3/objects/emails/batch/create",
            required_column |-> <<"association_id", "association_category", "association_type_id">>,
            method |-> "post"])
    @@ ("email_update" :>
           [endpoint |-> "crm/v3/objects/emails/batch/update",
            required_column |-> <<"email_id">>, method |-> "post"])
    @@ ("email_remove" :>
           [endpoint |-> "crm/v3/objects/emails/batch/archive",
            required_column |-> <<"email_id">>, method |-> "post"])
    @@ ("meeting_create" :>
           [endpoint |-> "crm/v3/objects/meetings/batch/create",
            required_column |-> <<"association_id", "association_category", "association_type_id">>,
            method |-> "post"])
    @@ ("meeting_update" :>
           [endpoint |-> "crm/v3/objects/meetings/batch/update",
            required_column |-> <<"meeting_id">>, method |-> "post"])
    @@ ("meeting_remove" :>
           [endpoint |-> "crm/v3/objects/meetings/batch/archive",
            required_column |-> <<"meeting_id">>, method |-> "post"])
    @@ ("note_create" :>
           [endpoint |-> "crm/v3/objects/notes/batch/create",
            required_column |-> <<"association_id", "association_category", "association_type_id">>,
            method |-> "post"])
    @@ ("note_update" :>
           [endpoint |-> "crm/v3/objects/notes/batch/update",
            required_column |-> <<"note_id">>, method |-> "post"])
    @@ ("note_remove" :>
           [endpoint |-> "crm/v3/objects/notes/batch/archive",
            required_column |-> <<"note_id">>, method |-> "post"])
    @@ ("postal_mail_create" :>
           [endpoint |-> "crm/v3/objects/postal_mail/batch/create",
            required_column |-> <<"association_id", "association_category", "association_type_id">>,
            method |-> "post"])
    @@ ("postal_mail_update" :>
           [endpoint |-> "crm/v3/objects/postal_mail/batch/update",
            required_column |-> <<"postal_mail_id">>, method |-> "post"])
    @@ ("postal_mail_remove" :>
           [endpoint |-> "crm/v3/objects/postal_mail/batch/archive",
            required_column |-> <<"postal_mail_id">>, method |-> "post"])
    @@ ("task_create" :>
           [endpoint |-> "crm/v3/objects/tasks/batch/create",
            required_column |-> <<"association_id", "association_category", "association_type_id">>,
            method |-> "post"])
    @@ ("task_update" :>
           [endpoint |-> "crm/v3/objects/tasks/batch/update",
            required_column |-> <<"task_id">>, method |-> "post"])
    @@ ("task_remove" :>
           [endpoint |-> "crm/v3/objects/tasks/batch/archive",
            required_column |-> <<"task_id">>, method |-> "post"])

(***************************************************************************)
(* The table of get_factory, and the class hierarchy of client.py.         *)
(***************************************************************************)
endpoints ==
    ("properties" :> "row")
    @@ ("contact_create" :> "CreateContact")
    @@ ("list_create" :> "CreateContactList")
    @@ ("custom_list_create" :> "CreateCustomList")
    @@ ("contact_add_to_list" :> "AddContactToList")
    @@ ("contact_remove_from_list" :> "RemoveContactFromList")
    @@ ("contact_update" :> "UpdateContact")
    @@ ("contact_update_by_email" :> "UpdateContactByEmail")
    @@ ("company_create" :> "CreateCompany")
    @@ ("company_update" :> "UpdateCompany")
    @@ ("company_remove" :> "RemoveCompany")
    @@ ("company_add_to_list" :> "AddCompanyToList")
    @@ ("company_remove_from_list" :> "RemoveCompanyFromList")
    @@ ("deal_create" :> "CreateDeal")
    @@ ("deal_update" :> "UpdateDeal")
    @@ ("deal_remove" :> "RemoveDeal")
    @@ ("deal_add_to_list" :> "AddDealToList")
    @@ ("deal_remove_from_list" :> "RemoveDealFromList")
    @@ ("ticket_create" :> "CreateTicket")
    @@ ("ticket_update" :> "UpdateTicket")
    @@ ("ticket_remove" :> "RemoveTicket")
    @@ ("product_create" :> "CreateProduct")
    @@ ("product_update" :> "UpdateProduct")
    @@ ("product_remove" :> "RemoveProduct")
    @@ ("quote_create" :> "CreateQuote")
    @@ ("quote_update" :> "UpdateQuote")
    @@ ("quote_remove" :> "RemoveQuote")
    @@ ("line_item_create" :> "CreateLineItem")
    @@ ("line_item_update" :> "UpdateLineItem")
    @@ ("line_item_remove" :> "RemoveLineItem")
    @@ ("tax_create" :> "CreateTax")
    @@ ("tax_update" :> "UpdateTax")
    @@ ("tax_remove" :> "RemoveTax")
    @@ ("call_create" :> "CreateCall")
    @@ ("call_update" :> "UpdateCall")
    @@ ("call_remove" :> "RemoveCall")
    @@ ("communication_create" :> "CreateCommunication")
    @@ ("communication_update" :> "UpdateCommunication")
    @@ ("communication_remove" :> "RemoveCommunication")
    @@ ("email_create" :> "CreateEmail")
    @@ ("email_update" :> "UpdateEmail")
    @@ ("email_remove" :> "RemoveEmail")
    @@ ("meeting_create" :> "CreateMeeting")
    @@ ("meeting_update" :> "UpdateMeeting")
    @@ ("meeting_remove" :> "RemoveMeeting")
    @@ ("note_create" :> "CreateNote")
    @@ ("note_update" :> "UpdateNote")
    @@ ("note_remove" :> "RemoveNote")
    @@ ("postal_mail_create" :> "CreatePostalMail")
    @@ ("postal_mail_update" :> "UpdatePostalMail")
    @@ ("postal_mail_remove" :> "RemovePostalMail")
    @@ ("task_create" :> "CreateTask")
    @@ ("task_update" :> "UpdateTask")
    @@ ("task_remove" :> "RemoveTask")

\* class C(P)
ParentClass ==
    ("CreateContact" :> "HubSpotClient")
    @@ ("CreateContactList" :> "HubSpotClient")
    @@ ("CreateCustomList" :> "HubSpotClient")
    @@ ("AddContactToList" :> "HubSpotClient")
    @@ ("RemoveContactFromList" :> "HubSpotClient")
    @@ ("UpdateContact" :> "HubSpotClient")
    @@ ("UpdateContactByEmail" :> "HubSpotClient")
    @@ ("CreateCompany" :> "HubSpotClient")
    @@ ("AddObjectToList" :> "HubSpotClient")
    @@ ("AddCompanyToList" :> "AddObjectToList")
    @@ ("AddDealToList" :> "AddObjectToList")
    @@ ("RemoveObjectFromList" :> "HubSpotClient")
    @@ ("RemoveCompanyFromList" :> "RemoveObjectFromList")
    @@ ("RemoveDealFromList" :> "RemoveObjectFromList")
    @@ ("UpdateCompany" :> "HubSpotClient")
    @@ ("CreateDeal" :> "HubSpotClient")
    @@ ("CreateAssociatedObject" :> "HubSpotClient")
    @@ ("CreateTicket" :> "CreateAssociatedObject")
    @@ ("CreateProduct" :> "CreateAssociatedObject")
    @@ ("CreateQuote" :> "CreateAssociatedObject")
    @@ ("CreateLineItem" :> "CreateAssociatedObject")
    @@ ("CreateTax" :> "CreateAssociatedObject")
    @@ ("CreateCall" :> "CreateAssociatedObject")
    @@ ("CreateCommunication" :> "CreateAssociatedObject")
    @@ ("CreateEmail" :> "CreateAssociatedObject")
    @@ ("CreateMeeting" :> "CreateAssociatedObject")
    @@ ("CreateNote" :> "CreateAssociatedObject")
    @@ ("CreatePostalMail" :> "CreateAssociatedObject")
    @@ ("CreateTask" :> "CreateAssociatedObject")
    @@ ("UpdateObject" :> "HubSpotClient")
    @@ ("UpdateDeal" :> "UpdateObject")
    @@ ("UpdateTicket" :> "UpdateObject")
    @@ ("UpdateProduct" :> "UpdateObject")
    @@ ("UpdateQuote" :> "UpdateObject")
    @@ ("UpdateLineItem" :> "UpdateObject")
    @@ ("UpdateTax" :> "UpdateObject")
    @@ ("UpdateCall" :> "UpdateObject")
    @@ ("UpdateCommunication" :> "UpdateObject")
    @@ ("UpdateEmail" :> "UpdateObject")
    @@ ("UpdateMeeting" :> "UpdateObject")
    @@ ("UpdateNote" :> "UpdateObject")
    @@ ("UpdatePostalMail" :> "UpdateObject")
    @@ ("UpdateTask" :> "UpdateObject")
    @@ ("RemoveObject" :> "HubSpotClient")
    @@ ("RemoveCompany" :> "RemoveObject")
    @@ ("RemoveDeal" :> "RemoveObject")
    @@ ("RemoveTicket" :> "RemoveObject")
    @@ ("RemoveProduct" :> "RemoveObject")
    @@ ("RemoveQuote" :> "RemoveObject")
    @@ ("RemoveLineItem" :> "RemoveObject")
    @@ ("RemoveTax" :> "RemoveObject")
    @@ ("RemoveCall" :> "RemoveObject")
    @@ ("RemoveCommunication" :> "RemoveObject")
    @@ ("RemoveEmail" :> "RemoveObject")
    @@ ("RemoveMeeting" :> "RemoveObject")
    @@ ("RemoveNote" :> "RemoveObject")
    @@ ("RemovePostalMail" :> "RemoveObject")
    @@ ("RemoveTask" :> "RemoveObject")

\* the object_type property of the UpdateObject and RemoveObject subclasses
object_type ==
    ("UpdateDeal" :> "deal")
    @@ ("UpdateTicket" :> "ticket")
    @@ ("UpdateProduct" :> "product")
    @@ ("UpdateQuote" :> "quote")
    @@ ("UpdateLineItem" :> "line_item")
    @@ ("UpdateTax" :> "tax")
    @@ ("UpdateCall" :> "call")
    @@ ("UpdateCommunication" :> "communication")
    @@ ("UpdateEmail" :> "email")
    @@ ("UpdateMeeting" :> "meeting")
    @@ ("UpdateNote" :> "note")
    @@ ("UpdatePostalMail" :> "postal_mail")
    @@ ("UpdateTask" :> "task")
    @@ ("RemoveCompany" :> "company")
    @@ ("RemoveDeal" :> "deal")
    @@ ("RemoveTicket" :> "ticket")
    @@ ("RemoveProduct" :> "product")
    @@ ("RemoveQuote" :> "quote")
    @@ ("RemoveLineItem" :> "line_item")
    @@ ("RemoveTax" :> "tax")
    @@ ("RemoveCall" :> "call")
    @@ ("RemoveCommunication" :> "communication")
    @@ ("RemoveEmail" :> "email")
    @@ ("RemoveMeeting" :> "meeting")
    @@ ("RemoveNote" :> "note")
    @@ ("RemovePostalMail" :> "postal_mail")
    @@ ("RemoveTask" :> "task")

\* f"{self.object_type}_id"
IdColumnOf ==
    ("deal" :> "deal_id")
    @@ ("ticket" :> "ticket_id")
    @@ ("product" :> "product_id")
    @@ ("quote" :> "quote_id")
    @@ ("line_item" :> "line_item_id")
    @@ ("tax" :> "tax_id")
    @@ ("call" :> "call_id")
    @@ ("communication" :> "communication_id")
    @@ ("email" :> "email_id")
    @@ ("meeting" :> "meeting_id")
    @@ ("note" :> "note_id")
    @@ ("postal_mail" :> "postal_mail_id")
    @@ ("task" :> "task_id")
    @@ ("company" :> "company_id")

\* the class whose process_requests a handler of class cls runs
ImplClass(cls) == IF ParentClass[cls] = "HubSpotClient" THEN cls ELSE ParentClass[cls]

\* the classes whose process_requests is wrapped in @batched()
BatchedClasses ==
    {"CreateContact", "UpdateContact", "CreateCompany", "UpdateCompany", "CreateDeal",
     "CreateAssociatedObject", "UpdateObject", "RemoveObject"}
\* the classes that group their rows with get_rows_by_list_id
ListClasses ==
    {"AddContactToList", "RemoveContactFromList", "AddObjectToList", "RemoveObjectFromList"}
\* the classes that send one request per row
RowClasses == {"CreateContactList", "CreateCustomList", "UpdateContactByEmail"}

(***************************************************************************)
(* Row transformers: the bodies of the process_requests methods.  A row is *)
(* a function from column names to values; a transformer gives the         *)
(* exception it raises ("none" when it raises nothing) and the payload.    *)
(***************************************************************************)
\* row.pop(k), as the row it leaves
pop(row, k) == [c \in DOMAIN row \ {k} |-> row[c]]
\* {k: str(v) for k, v in row.items()}
StrItems(row) == [c \in DOMAIN row |-> Str(row[c])]

\* the column a batched class requires to be non-empty ("" when it checks none)
CheckedColumn(cls) ==
    CASE ImplClass(cls) = "UpdateContact" -> "vid"
      [] ImplClass(cls) = "UpdateCompany" -> "company_id"
      [] ImplClass(cls) = "CreateCompany" -> "name"
      [] ImplClass(cls) = "CreateDeal" -> "hubspot_owner_id"
      [] ImplClass(cls) = "CreateAssociatedObject" -> "association_id"
      [] ImplClass(cls) = "UpdateObject" -> IdColumnOf[object_type[cls]]
      [] OTHER -> ""

\* the payload entry one row gives
CreateContact_entry(row) == [properties |-> StrItems(row)]
CreateCompany_entry(row) == [properties |-> StrItems(row)]
CreateDeal_entry(row) == [properties |-> row]
UpdateContact_entry(row) == [id |-> row["vid"], properties |-> StrItems(pop(row, "vid"))]
UpdateCompany_entry(row) ==
    [id |-> row["company_id"], properties |-> StrItems(pop(row, "company_id"))]
\* a bug UpdateObject could have: the id column is read, not popped
UpdateObject_entry_keeps_id(cls, row) ==
    [id |-> Str(row[IdColumnOf[object_type[cls]]]), properties |-> row]
UpdateObject_entry(cls, row) ==
    LET idcol == IdColumnOf[object_type[cls]]
    IN  [id |-> Str(row[idcol]), properties |-> pop(row, idcol)]
\* a bug CreateAssociatedObject could have: the association columns are read,
\* not popped
CreateAssociatedObject_entry_keeps(row) ==
    [associations |->
        <<[to |-> [id |-> Str(row["association_id"])],
           types |-> <<[associationCategory |-> row["association_category"],
                        associationTypeId |-> row["association_type_id"]]>>]>>,
     properties |-> row]
CreateAssociatedObject_entry(row) ==
    [associations |->
        <<[to |-> [id |-> Str(row["association_id"])],
           types |-> <<[associationCategory |-> row["association_category"],
                        associationTypeId |-> row["association_type_id"]]>>]>>,
     properties |-> pop(pop(pop(row, "association_id"), "association_category"),
                        "association_type_id")]
RemoveObject_entry(cls, row) == [id |-> Str(row[IdColumnOf[object_type[cls]]])]

entry_of(cls, row) ==
    CASE ImplClass(cls) = "CreateContact" -> CreateContact_entry(row)
      [] ImplClass(cls) = "CreateCompany" -> CreateCompany_entry(row)
      [] ImplClass(cls) = "CreateDeal" -> CreateDeal_entry(row)
      [] ImplClass(cls) = "UpdateContact" -> UpdateContact_entry(row)
      [] ImplClass(cls) = "UpdateCompany" -> UpdateCompany_entry(row)
      [] ImplClass(cls) = "UpdateObject" -> UpdateObject_entry(cls, row)
      [] ImplClass(cls) = "CreateAssociatedObject" -> CreateAssociatedObject_entry(row)
      [] ImplClass(cls) = "RemoveObject" -> RemoveObject_entry(cls, row)

\* a bug the batched classes could have: no row is checked
batch_inputs_unchecked(cls, batch) ==
    [exc |-> "none", inputs |-> [i \in 1..Len(batch) |-> entry_of(cls, batch[i])]]

\* the loop of a batched process_requests over one batch, up to
\* make_batch_request: UserException at the first row whose checked column is
\* empty, else the inputs list
batch_inputs(cls, batch) ==
    LET col == CheckedColumn(cls)
    IN  IF col # "" /\ \E i \in 1..Len(batch) : Falsy(batch[i][col])
        THEN [exc |-> "UserException", inputs |-> <<>>]
        ELSE [exc |-> "none", inputs |-> [i \in 1..Len(batch) |-> entry_of(cls, batch[i])]]

\* get_rows_by_list_id: the list ids in the order of their first row (the
\* insertion order of the defaultdict)
RECURSIVE list_ids_in_order(_, _)
list_ids_in_order(rows, n) ==
    IF n = 0 THEN <<>>
    ELSE LET prev == list_ids_in_order(rows, n - 1)
         IN  IF rows[n]["list_id"] \in Range(prev) THEN prev
             ELSE Append(prev, rows[n]["list_id"])

\* the list ids in the reverse of the order of their first row
RECURSIVE list_ids_last_first(_, _)
list_ids_last_first(rows, n) ==
    IF n = 0 THEN <<>>
    ELSE LET prev == list_ids_last_first(rows, n - 1)
         IN  IF rows[n]["list_id"] \in Range(prev) THEN prev
             ELSE <<rows[n]["list_id"]>> \o prev

\* a bug get_rows_by_list_id could have: an empty list_id is grouped like any other
get_rows_by_list_id_unchecked(rows) ==
    LET ids == list_ids_in_order(rows, Len(rows))
    IN  [exc |-> "none",
         groups |-> [g \in 1..Len(ids) |->
                       [list_id |-> ids[g],
                        rows |-> SelectSeq(rows, LAMBDA r : r["list_id"] = ids[g])]]]

\* a bug get_rows_by_list_id could have: the groups come last list first
get_rows_by_list_id_last_first(rows) ==
    IF \E i \in 1..Len(rows) : Falsy(rows[i]["list_id"])
    THEN [exc |-> "UserException", groups |-> <<>>]
    ELSE LET ids == list_ids_last_first(rows, Len(rows))
         IN  [exc |-> "none",
              groups |-> [g \in 1..Len(ids) |->
                            [list_id |-> ids[g],
                             rows |-> SelectSeq(rows, LAMBDA r : r["list_id"] = ids[g])]]]

get_rows_by_list_id(rows) ==
    IF \E i \in 1..Len(rows) : Falsy(rows[i]["list_id"])
    THEN [exc |-> "UserException", groups |-> <<>>]
    ELSE LET ids == list_ids_in_order(rows, Len(rows))
         IN  [exc |-> "none",
              groups |-> [g \in 1..Len(ids) |->
                            [list_id |-> ids[g],
                             rows |-> SelectSeq(rows, LAMBDA r : r["list_id"] = ids[g])]]]

get_vids_from_rows(rows) ==
    IF \E i \in 1..Len(rows) : Falsy(rows[i]["vids"])
    THEN [exc |-> "UserException", vids |-> <<>>]
    ELSE [exc |-> "none", vids |-> [i \in 1..Len(rows) |-> rows[i]["vids"]]]

\* the request body of one list_id group
\* a bug AddContactToList could have: the email of every row is listed
AddContactToList_body_every_email(rows) ==
    LET with_vid == SelectSeq(rows, LAMBDA r : ~Falsy(r["vids"]))
    IN  [exc |-> "none",
         body |-> [vids |-> [i \in 1..Len(with_vid) |-> with_vid[i]["vids"]],
                   emails |-> [i \in 1..Len(rows) |-> rows[i]["emails"]]]]
AddContactToList_body(rows) ==
    LET with_vid == SelectSeq(rows, LAMBDA r : ~Falsy(r["vids"]))
        without  == SelectSeq(rows, LAMBDA r : Falsy(r["vids"]))
    IN  [exc |-> "none",
         body |-> [vids |-> [i \in 1..Len(with_vid) |-> with_vid[i]["vids"]],
                   emails |-> [i \in 1..Len(without) |-> without[i]["emails"]]]]
RemoveContactFromList_body(rows) ==
    LET v == get_vids_from_rows(rows)
    IN  [exc |-> v.exc, body |-> [vids |-> v.vids]]
AddObjectToList_body(rows) ==
    LET v == get_vids_from_rows(rows)
    IN  [exc |-> v.exc, body |-> [recordIdsToAdd |-> v.vids]]
RemoveObjectFromList_body(rows) ==
    LET v == get_vids_from_rows(rows)
    IN  [exc |-> v.exc, body |-> [recordIdsToRemove |-> v.vids]]

group_body(cls, rows) ==
    CASE ImplClass(cls) = "AddContactToList" -> AddContactToList_body(rows)
      [] ImplClass(cls) = "RemoveContactFromList" -> RemoveContactFromList_body(rows)
      [] ImplClass(cls) = "AddObjectToList" -> AddObjectToList_body(rows)
      [] ImplClass(cls) = "RemoveObjectFromList" -> RemoveObjectFromList_body(rows)

\* the request one row of a per-row class gives: the exception, the value
\* substituted in the url template and the body
object_types_to_id == ("contact" :> "0-1") @@ ("company" :> "0-2") @@ ("deal" :> "0-3")

CreateContactList_request(row) ==
    [exc |-> "none", arg |-> "", body |-> [name |-> Str(row["name"])]]
CreateCustomList_request(row) ==
    IF row["object_type"] \notin DOMAIN object_types_to_id
    THEN [exc |-> "KeyError", arg |-> "", body |-> [name |-> Str(row["name"])]]
    ELSE [exc |-> "none", arg |-> "",
          body |-> [name |-> Str(row["name"]), processingType |-> "MANUAL",
                    objectTypeId |-> object_types_to_id[row["object_type"]]]]
\* the properties list is kept as the set of its entries
UpdateContactByEmail_request(row) ==
    IF Falsy(row["email"])
    THEN [exc |-> "UserException", arg |-> "", body |-> [properties |-> {}]]
    ELSE [exc |-> "none", arg |-> row["email"],
          body |-> [properties |->
                      {[property |-> k, value |-> Str(row[k])] : k \in DOMAIN row \ {"email"}}]]

row_request(cls, row) ==
    CASE ImplClass(cls) = "CreateContactList" -> CreateContactList_request(row)
      [] ImplClass(cls) = "CreateCustomList" -> CreateCustomList_request(row)
      [] ImplClass(cls) = "UpdateContactByEmail" -> UpdateContactByEmail_request(row)

(***************************************************************************)
(* The environment: what one attempt of a request can meet.                *)
(***************************************************************************)
\* a rejected request's JSON body with all the columns of the errors table and
\* one more key, and one with `message` alone
ErrorBodyFull ==
    [status |-> "error", category |-> "VALIDATION_ERROR", message |-> "invalid input",
     context |-> "ctx", correlationId |-> "c-1"]
ErrorBodyPartial == [message |-> "not found"]
\* the i-th element of the `errors` array of a 207 body
ItemError(i) ==
    [status |-> "error", category |-> "VALIDATION_ERROR", message |-> ToString(i),
     context |-> "ctx"]

Http(st, ok, ra, b, errs) ==
    [kind |-> "http", status |-> st, parseable |-> ok, retry_after |-> ra, body |-> b,
     errors |-> errs]
NoResponse ==
    [kind |-> "none", status |-> 0, parseable |-> FALSE, retry_after |-> FALSE,
     body |-> <<>>, errors |-> <<>>]
\* a timeout or connection error: the session has no response
NetworkFailure ==
    [kind |-> "neterr", status |-> 0, parseable |-> FALSE, retry_after |-> FALSE,
     body |-> <<>>, errors |-> <<>>]

ServerAnswers ==
    {Http(200, TRUE, FALSE, <<>>, <<>>),
     Http(304, FALSE, FALSE, <<>>, <<>>),
     Http(400, TRUE, FALSE, ErrorBodyFull, <<>>),
     Http(400, TRUE, FALSE, ErrorBodyPartial, <<>>),
     Http(400, FALSE, FALSE, <<>>, <<>>),
     Http(429, TRUE, FALSE, ErrorBodyPartial, <<>>),
     Http(429, TRUE, TRUE, ErrorBodyPartial, <<>>),
     Http(500, TRUE, FALSE, ErrorBodyPartial, <<>>),
     Http(503, FALSE, FALSE, <<>>, <<>>),
     NetworkFailure}
    \cup {Http(207, TRUE, FALSE, <<>>, [i \in 1..k |-> ItemError(i)]) : k \in 0..MaxBatchErrors}

(***************************************************************************)
(* The inputs of a run.                                                    *)
(***************************************************************************)
KeyValues == {"", "1", "2"}
KeyedRows(col) == {(col :> v) @@ ("prop" :> "x") : v \in KeyValues}

\* the rows a handler of class cls is given: its required columns are present
RowsOf(cls) ==
    CASE ImplClass(cls) = "CreateContact" -> {("prop" :> v) : v \in {"x", NoneVal}}
      [] ImplClass(cls) = "CreateCompany" -> {("name" :> v) : v \in {"", "Acme", "Bolt"}}
      [] ImplClass(cls) \in {"UpdateContact", "UpdateCompany", "CreateDeal", "UpdateObject"}
            -> KeyedRows(CheckedColumn(cls))
      [] ImplClass(cls) = "CreateAssociatedObject" ->
            {[association_id |-> v, association_category |-> "HUBSPOT_DEFINED",
              association_type_id |-> "16", prop |-> "x"] : v \in KeyValues}
      [] ImplClass(cls) = "RemoveObject" ->
            {(IdColumnOf[object_type[cls]] :> v) : v \in KeyValues}
      [] ImplClass(cls) = "AddContactToList" ->
            {[list_id |-> l, vids |-> c[1], emails |-> c[2]] :
                l \in KeyValues, c \in {<<"", "a@x">>, <<"7", "b@x">>, <<"8", "">>}}
      [] ImplClass(cls) \in ListClasses \ {"AddContactToList"} ->
            {[list_id |-> l, vids |-> v] : l \in KeyValues, v \in {"", "7"}}
      [] ImplClass(cls) = "CreateContactList" -> {[name |-> v] : v \in {"L1", "L2"}}
      [] ImplClass(cls) = "CreateCustomList" ->
            {[name |-> "L1", object_type |-> t] : t \in {"contact", "bogus"}}
      [] ImplClass(cls) = "UpdateContactByEmail" -> KeyedRows("email")

SeqsUpTo(S, n) == UNION {[1..k -> S] : k \in 0..n}

\* the endpoint names a run is started with: one or two names of every
\* process_requests implementation, and names no table knows
RunEndpoints ==
    {"contact_create", "company_create", "contact_update", "company_update", "deal_create",
     "deal_update", "ticket_create", "company_remove", "contact_add_to_list",
     "contact_remove_from_list", "company_add_to_list", "company_remove_from_list",
     "deal_add_to_list", "deal_remove_from_list", "list_create", "custom_list_create",
     "contact_update_by_email"}
UnknownEndpoints == {"create_contact", "create_company", "no_such_endpoint"}

InputsOf(ep) ==
    IF ep \notin DOMAIN endpoints THEN SeqsUpTo({("prop" :> "x")}, 1)
    ELSE IF ep = "contact_create" THEN SeqsUpTo(RowsOf(endpoints[ep]), MaxStreamRows)
    ELSE SeqsUpTo(RowsOf(endpoints[ep]), MaxRows)

(***************************************************************************)
(* State.                                                                  *)
(***************************************************************************)
VARIABLES
    entry,            \* "client": client.run; "component": Component.run
    endpoint,         \* the configured endpoint name
    data,             \* the rows of the input table
    pc,               \* where the run is
    handler,          \* the class get_factory constructed, "none" before
    pos,              \* rows (groups, for a list class) consumed by the loop
    rows_by_list_id,  \* the groups of get_rows_by_list_id
    requests,         \* the requests handed to the session, in order
    retries,          \* retries the session has used for the request in flight
    answers_500,      \* answers with status 500 the request in flight has got
    response,         \* the outcome of the latest attempt
    error_rows,       \* the rows written to error_writer
    errors,           \* error_writer.errors
    raised,           \* the exception that ended the run, "none" if none
    sleeps,           \* calls of time.sleep(sleep_interval)
    in_tables,        \* Component: the number of input tables
    table_columns,    \* Component: the columns of the tables' manifests
    probes            \* Component: the answers of the authentication probe

vars ==
    <<entry, endpoint, data, pc, handler, pos, rows_by_list_id, requests, retries, answers_500,
      response,
      error_rows, errors, raised, sleeps, in_tables, table_columns, probes>>

Init ==
    /\ entry \in {"client", "component"}
    /\ endpoint \in RunEndpoints \cup UnknownEndpoints
    /\ IF entry = "client"
       THEN /\ data \in InputsOf(endpoint)
            /\ in_tables = 0
            /\ table_columns = {}
       ELSE /\ data \in SeqsUpTo({("prop" :> "x")}, 1)
            /\ in_tables \in 0..MaxTables
            /\ table_columns \in
                 {{"prop"},
                  {"prop"} \cup (IF endpoint \in DOMAIN ENDPOINT_MAPPING
                                 THEN Range(ENDPOINT_MAPPING[endpoint].required_column)
                                 ELSE {})}
    /\ pc = "start"
    /\ handler = "none"
    /\ pos = 0
    /\ rows_by_list_id = <<>>
    /\ requests = <<>>
    /\ retries = 0
    /\ answers_500 = 0
    /\ response = NoResponse
    /\ error_rows = <<>>
    /\ errors = FALSE
    /\ raised = "none"
    /\ sleeps = 0
    /\ probes = <<>>

(***************************************************************************)
(* client.py: the session, make_request, make_batch_request, the error     *)
(* writer.                                                                 *)
(***************************************************************************)
componentVars == <<in_tables, table_columns, probes>>
inputVars == <<entry, endpoint, data>>

\* an exception leaves the run: nothing catches it in client.run
Raise(exc, newpos) ==
    /\ pc' = "raised"
    /\ raised' = exc
    /\ pos' = newpos
    /\ UNCHANGED <<inputVars, handler, rows_by_list_id, requests, retries, answers_500,
                   response,
                   error_rows, errors, sleeps, componentVars>>

\* the method check of make_request
method_allowed(method) == method \in {"post", "put", "delete", "patch"}

Request(arg, body) ==
    [endpoint |-> endpoint,
     url |-> [template |-> ENDPOINT_MAPPING[endpoint].endpoint, arg |-> arg],
     method |-> ENDPOINT_MAPPING[endpoint].method,
     body |-> body]

\* the url and method are looked up in ENDPOINT_MAPPING (KeyError for a name it
\* lacks), make_request checks the method and hands the request to the session
Send(arg, body, newpos) ==
    IF endpoint \notin DOMAIN ENDPOINT_MAPPING THEN Raise("KeyError", newpos)
    ELSE IF ~method_allowed(ENDPOINT_MAPPING[endpoint].method)
    THEN Raise("UserException", newpos)
    ELSE /\ requests' = Append(requests, Request(arg, body))
         /\ pc' = "sending"
         /\ retries' = 0
         /\ answers_500' = 0
         /\ response' = NoResponse
         /\ pos' = newpos
         /\ UNCHANGED <<inputVars, handler, rows_by_list_id, error_rows, errors, raised,
                        sleeps, componentVars>>

\* urllib3's Retry.is_retry, with `total` the retries left
is_retry(method, status, has_retry_after, total) ==
    /\ method \in allowed_methods
    /\ \/ status \in status_forcelist
       \/ total # 0 /\ has_retry_after /\ status \in RETRY_AFTER_STATUS_CODES

\* a bug the status check could have: every status from 200 on is an error
raise_for_status_from_200(status) == 200 <= status /\ status < 600

\* whether response.raise_for_status() raises HTTPError
raise_for_status(status) == 400 <= status /\ status < 600

\* the row log_errors writes
log_errors(resp) ==
    [f \in Range(ERRORS_TABLE_COLUMNS) |->
        IF f \in DOMAIN resp.body THEN resp.body[f] ELSE NoneVal]

\* a bug log_batch_errors could have: only the first error is written
log_batch_errors_first(resp) ==
    IF resp.errors = <<>> THEN <<>> ELSE <<resp.errors[1]>>

\* a bug log_batch_errors could have: the errors are written last first
log_batch_errors_reversed(resp) ==
    [i \in 1..Len(resp.errors) |-> resp.errors[Len(resp.errors) + 1 - i]]

\* the rows log_batch_errors writes
log_batch_errors(resp) == resp.errors

\* whether the request was made by make_batch_request
IsBatchRequest == handler # "none" /\ ImplClass(handler) \in BatchedClasses

\* a bug the wrapper could have: the sleep follows the tail batch alone
SleepsAfter_tail(req) == IsBatchRequest /\ Len(req.body.inputs) < BATCH_SIZE

\* time.sleep(sleep_interval) follows func in the branch `not i % batch_size`
SleepsAfter(req) == IsBatchRequest /\ Len(req.body.inputs) = BATCH_SIZE

\* a bug the dispatcher could have: a rejected request ends the run as if the
\* input were finished
Returned_ends_on_rejection(a) ==
    LET req    == requests[Len(requests)]
        failed == raise_for_status(a.status)
        multi  == IsBatchRequest /\ a.status = 207
    IN  /\ errors' = (errors \/ failed \/ multi)
        /\ error_rows' = error_rows
               \o (IF failed /\ a.parseable THEN <<log_errors(a)>> ELSE <<>>)
               \o (IF multi THEN log_batch_errors(a) ELSE <<>>)
        /\ sleeps' = IF SleepsAfter(req) THEN sleeps + 1 ELSE sleeps
        /\ pc' = IF failed THEN "done" ELSE "loop"
        /\ UNCHANGED raised

\* the response reached make_request: raise_for_status and log_errors, then the
\* 207 branch of make_batch_request, then back in the loop of process_requests
Returned(a) ==
    LET req    == requests[Len(requests)]
        failed == raise_for_status(a.status)
        multi  == IsBatchRequest /\ a.status = 207
    IN  IF failed /\ ~a.parseable
        THEN \* response.json() raises inside the except clause
             /\ errors' = TRUE
             /\ pc' = "raised"
             /\ raised' = "JSONDecodeError"
             /\ UNCHANGED <<error_rows, sleeps>>
        ELSE /\ errors' = (errors \/ failed \/ multi)
             /\ error_rows' = error_rows
                    \o (IF failed THEN <<log_errors(a)>> ELSE <<>>)
                    \o (IF multi THEN log_batch_errors(a) ELSE <<>>)
             /\ sleeps' = IF SleepsAfter(req) THEN sleeps + 1 ELSE sleeps
             /\ pc' = "loop"
             /\ UNCHANGED raised

\* one attempt of self.s.request: the adapter retries it, gives up with an
\* exception, or returns the response
session_request ==
    /\ pc = "sending"
    /\ \E a \in ServerAnswers :
         LET req  == requests[Len(requests)]
             left == RETRY_TOTAL - retries
             again == \/ a.kind = "neterr"
                      \/ is_retry(req.method, a.status, a.retry_after, left)
         IN  /\ response' = a
             /\ answers_500' = IF a.kind = "http" /\ a.status = 500
                               THEN answers_500 + 1 ELSE answers_500
             /\ IF again /\ left > 0
                THEN /\ retries' = retries + 1
                     /\ UNCHANGED <<pc, raised, error_rows, errors, sleeps>>
                ELSE IF again
                THEN /\ pc' = "raised"
                     /\ raised' = IF a.kind = "neterr" THEN "ConnectionError" ELSE "RetryError"
                     /\ UNCHANGED <<retries, error_rows, errors, sleeps>>
                ELSE /\ Returned(a)
                     /\ UNCHANGED retries
    /\ UNCHANGED <<inputVars, handler, pos, rows_by_list_id, requests, componentVars>>

(***************************************************************************)
(* client.py: run, get_factory and the process_requests loops.             *)
(***************************************************************************)
\* a bug get_factory could have: a default handler for a name it does not know
get_factory_default(name) ==
    IF name \in DOMAIN endpoints THEN endpoints[name] ELSE "CreateContact"

\* get_factory: the handler class of a name, "none" for a name it raises on
get_factory(name) == IF name \in DOMAIN endpoints THEN endpoints[name] ELSE "none"

run ==
    /\ pc = "start"
    /\ entry = "client"
    /\ IF get_factory(endpoint) = "none"
       THEN Raise("UserException", pos)
       ELSE /\ handler' = get_factory(endpoint)
            /\ pc' = IF ImplClass(get_factory(endpoint)) \in ListClasses THEN "call" ELSE "loop"
            /\ UNCHANGED <<inputVars, pos, rows_by_list_id, requests, retries,
                           answers_500, response,
                           error_rows, errors, raised, sleeps, componentVars>>

\* a bug the wrapper could have: the batch is cut one row late
next_batch_late(rows, p) == SubSeq(rows, p + 1, Min(p + BATCH_SIZE + 1, Len(rows)))

\* the rows the wrapper hands to func next: up to batch_size rows from pos on
next_batch(rows, p) == SubSeq(rows, p + 1, Min(p + BATCH_SIZE, Len(rows)))

Finish ==
    /\ pc' = "done"
    /\ UNCHANGED <<inputVars, handler, pos, rows_by_list_id, requests, retries,
                   answers_500, response,
                   error_rows, errors, raised, sleeps, componentVars>>

\* batched.inner: collect the next batch and call func on it, or return
batched ==
    /\ pc = "loop"
    /\ entry = "client"
    /\ ImplClass(handler) \in BatchedClasses
    /\ IF pos = Len(data) THEN Finish
       ELSE LET batch == next_batch(data, pos)
                t     == batch_inputs(handler, batch)
            IN  IF t.exc # "none" THEN Raise(t.exc, pos + Len(batch))
                ELSE Send("", [inputs |-> t.inputs], pos + Len(batch))

\* the for loop of a per-row process_requests
process_rows ==
    /\ pc = "loop"
    /\ entry = "client"
    /\ ImplClass(handler) \in RowClasses
    /\ IF pos = Len(data) THEN Finish
       ELSE LET r == row_request(handler, data[pos + 1])
            IN  IF r.exc # "none" THEN Raise(r.exc, pos + 1)
                ELSE Send(r.arg, r.body, pos + 1)

\* the first statement of a list class's process_requests
group_rows ==
    /\ pc = "call"
    /\ LET g == get_rows_by_list_id(data)
       IN  IF g.exc # "none" THEN Raise(g.exc, pos)
           ELSE /\ rows_by_list_id' = g.groups
                /\ pc' = "loop"
                /\ UNCHANGED <<inputVars, handler, pos, requests, retries, answers_500,
                               response,
                               error_rows, errors, raised, sleeps, componentVars>>

\* the for loop over rows_by_list_id.items()
process_groups ==
    /\ pc = "loop"
    /\ entry = "client"
    /\ ImplClass(handler) \in ListClasses
    /\ IF pos = Len(rows_by_list_id) THEN Finish
       ELSE LET g == rows_by_list_id[pos + 1]
                b == group_body(handler, g.rows)
            IN  IF b.exc # "none" THEN Raise(b.exc, pos + 1)
                ELSE Send(g.list_id, b.body, pos + 1)

(***************************************************************************)
(* component.py: Component.run.                                            *)
(***************************************************************************)
\* the answers of requests.get(auth_url): a status, or 0 for a network failure
ProbeAnswers == {200, 401, 0}

\* missing_columns of validate_user_input
missing_columns(name, columns) ==
    {r \in Range(ENDPOINT_MAPPING[name].required_column) : r \notin columns}

validate_user_input ==
    /\ pc = "start"
    /\ entry = "component"
    /\ IF endpoint \notin DOMAIN ENDPOINT_MAPPING THEN Raise("Exception", pos)
       ELSE IF in_tables < 1 THEN Raise("Exception", pos)
       ELSE IF missing_columns(endpoint, table_columns) # {} THEN Raise("Exception", pos)
       ELSE \E st \in ProbeAnswers :
              /\ probes' = Append(probes, st)
              /\ pc' = IF st \in {200, 201} THEN "validated" ELSE "raised"
              /\ raised' = IF st \in {200, 201} THEN "none"
                           ELSE IF st = 0 THEN "ConnectionError" ELSE "Exception"
              /\ UNCHANGED <<inputVars, handler, pos, rows_by_list_id, requests, retries,
                             answers_500, response, error_rows, errors, sleeps,
                             in_tables, table_columns>>

\* the names the if/elif chain of _construct_request_body compares endpoint with
LegacyBranches ==
    {"create_contact", "create_list", "add_contact_to_list", "remove_contact_from_list",
     "update_contact", "update_contact_by_email", "create_company", "update_company",
     "remove_company"}

\* the column a branch requires to be non-empty ("" when it checks none)
LegacyCheckedColumn(name) ==
    CASE name = "update_contact" -> "vid"
      [] name = "update_contact_by_email" -> "email"
      [] name = "create_company" -> "name"
      [] name \in {"update_company", "remove_company"} -> "company_id"
      [] OTHER -> ""

\* What a branch of _construct_request_body can end with on the rows of one
\* table.  Every branch looks its url up in ENDPOINT_MAPPING[endpoint] before it
\* calls make_post, and ENDPOINT_MAPPING has none of the branch names, so a
\* branch ends with its own check's Exception, with KeyError, or, on a table
\* without rows, normally; the set-iteration order of unique_list_ids is
\* arbitrary, so a list branch has every outcome some first list_id gives.
LegacyOutcomes(name, rows) ==
    LET col == LegacyCheckedColumn(name)
        ids == {rows[i]["list_id"] : i \in 1..Len(rows)}
        group(id) == SelectSeq(rows, LAMBDA r : r["list_id"] = id)
    IN  IF rows = <<>> THEN {"none"}
        ELSE IF name = "add_contact_to_list"
        THEN {IF id = "" THEN "Exception" ELSE "KeyError" : id \in ids}
        ELSE IF name = "remove_contact_from_list"
        THEN {IF id = "" \/ \E i \in 1..Len(group(id)) : group(id)[i]["vids"] = ""
              THEN "Exception" ELSE "KeyError" : id \in ids}
        ELSE IF name = "remove_company"
        THEN {IF \E i \in 1..Len(rows) : rows[i][col] = "" THEN "Exception" ELSE "KeyError"}
        ELSE IF col # "" /\ rows[1][col] = "" THEN {"Exception"}
        ELSE {"KeyError"}

\* one turn of the loop over in_tables: _construct_request_body on one table
construct_request_body ==
    /\ pc = "validated"
    /\ IF pos = in_tables THEN Finish
       ELSE IF endpoint \in LegacyBranches
       THEN \E o \in LegacyOutcomes(endpoint, data) :
              IF o # "none" THEN Raise(o, pos + 1)
              ELSE /\ pos' = pos + 1
                   /\ UNCHANGED <<inputVars, pc, handler, rows_by_list_id, requests, retries,
                                  answers_500, response, error_rows, errors, raised,
                                  sleeps, componentVars>>
       ELSE \* no branch matches the name: the table is read by nobody
            /\ pos' = pos + 1
            /\ UNCHANGED <<inputVars, pc, handler, rows_by_list_id, requests, retries,
                           answers_500, response, error_rows, errors, raised, sleeps,
                           componentVars>>

Next ==
    \/ run
    \/ batched
    \/ process_rows
    \/ group_rows
    \/ process_groups
    \/ session_request
    \/ validate_user_input
    \/ construct_request_body

Spec == Init /\ [][Next]_vars

(***************************************************************************)
(* Properties.                                                             *)
(***************************************************************************)
Is2xx(status) == 200 <= status /\ status < 300

\* the step in which the session's call for the request in flight ends: it
\* returns a response to make_request, or it raises
CallEnds == pc = "sending" /\ pc' # "sending"
\* ... with a response handed to make_request
CallReturns == CallEnds /\ response'.kind = "http" /\ raised' # "RetryError"

\* the number of rows in the batch of request i of a batched class
BatchLen(i) == Len(requests[i].body.inputs)

RECURSIVE SentInputs(_)
\* the payload entries of the first k requests, concatenated in the order sent
SentInputs(k) == IF k = 0 THEN <<>> ELSE SentInputs(k - 1) \o requests[k].body.inputs

\* C1: when the response make_request receives has a non-2xx status, exactly
\* one row, built from the status/category/message/context fields of the
\* response body, is written to the error writer, no exception leaves the run,
\* and the loop goes on to the next batch, row or group.
C1_NonSuccessIsLoggedOnce ==
    [][(CallReturns /\ ~Is2xx(response'.status))
        => /\ error_rows' = Append(error_rows, log_errors(response'))
           /\ raised' = "none"
           /\ pc' = "loop"]_vars

\* C2: a 207 answer to a batch request raises nothing, writes exactly one row
\* per element of the body's `errors` array, in order, does not send the
\* batch again, and leaves the run in its loop, from which it goes on to the
\* next batch or ends normally.
C2_MultiStatusLogsEveryError ==
    [][(CallReturns /\ IsBatchRequest /\ response'.status = 207)
        => /\ raised' = "none"
           /\ pc' = "loop"
           /\ errors'
           /\ error_rows' = error_rows \o response'.errors
           /\ Len(error_rows') = Len(error_rows) + Len(response'.errors)
           /\ requests' = requests
           /\ pos' = pos]_vars

\* a run of one full batch, answered 207 with two failing items, has ended
\* normally with exactly those two rows in the error writer
C2_Witness ==
    /\ pc = "done"
    /\ IsBatchRequest
    /\ Len(requests) = 1
    /\ BatchLen(1) = BATCH_SIZE
    /\ response.status = 207
    /\ Len(response.errors) = 2
    /\ error_rows = <<ItemError(1), ItemError(2)>>

\* C3: the batches the wrapper has handed on, concatenated in order, are the
\* rows of the input read so far, in input order; every batch has batch_size
\* rows, except that the last one of a finished input may have fewer, and none
\* is empty; a batch that passes its checks gives exactly one request; a run
\* that ends normally has sent the whole input in ceil(n / batch_size)
\* requests (none for an empty input).
C3_BatchesPartitionTheInput ==
    (entry = "client" /\ IsBatchRequest) =>
        LET k == Len(requests)
            sent == SentInputs(k)
        IN  /\ Len(sent) <= Len(data)
            /\ sent = [j \in 1..Len(sent) |-> entry_of(handler, data[j])]
            /\ \A i \in 1..k :
                 \/ BatchLen(i) = BATCH_SIZE
                 \/ i = k /\ pos = Len(data) /\ 1 <= BatchLen(i) /\ BatchLen(i) < BATCH_SIZE
            /\ raised # "UserException" =>
                 /\ Len(sent) = pos
                 /\ k = (pos + BATCH_SIZE - 1) \div BATCH_SIZE
            /\ pc = "done" =>
                 /\ Len(sent) = Len(data)
                 /\ k = (Len(data) + BATCH_SIZE - 1) \div BATCH_SIZE

\* contact_create has sent an input of two full batches and a tail in three
\* requests
C3_Witness ==
    /\ pc = "done"
    /\ endpoint = "contact_create"
    /\ Len(data) > 2 * BATCH_SIZE
    /\ Len(requests) = 3
    /\ BatchLen(1) = BATCH_SIZE /\ BatchLen(2) = BATCH_SIZE
    /\ BatchLen(3) = Len(data) - 2 * BATCH_SIZE

\* what holds of C1's case in the code: a 4xx or 5xx response whose body is a
\* JSON object
C1_HoldsOfParseableErrors ==
    [][(CallReturns /\ raise_for_status(response'.status) /\ response'.parseable)
        => /\ error_rows' = Append(error_rows, log_errors(response'))
           /\ raised' = "none"
           /\ pc' = "loop"]_vars

\* C4: when a request has been answered 500 at every attempt and the answer to
\* the last attempt the retry policy allows is again a transient status, one
\* row is written to the error writer, no exception leaves the run, and the
\* loop goes on.
C4_ExhaustedRetriesAreLogged ==
    [][(pc = "sending" /\ retries = RETRY_TOTAL /\ answers_500 = RETRY_TOTAL
            /\ response'.kind = "http" /\ response'.status \in status_forcelist)
        => /\ Len(error_rows') = Len(error_rows) + 1
           /\ raised' = "none"
           /\ pc' = "loop"]_vars

\* C5: when the session's call ends with a network failure, one row is written
\* to the error writer, no exception leaves the run, and the loop goes on.
C5_NetworkFailureIsLogged ==
    [][(CallEnds /\ response'.kind = "neterr")
        => /\ Len(error_rows') = Len(error_rows) + 1
           /\ raised' = "none"
           /\ pc' = "loop"]_vars

\* C6: a request answered 500 three times and then 200 returns that one
\* response to make_request: nothing is written to the error writer, the error
\* flag is left as it was (unset, when this is the first request), no request
\* is added, nothing is raised and the loop goes on.
C6_RetriesAreTransparent ==
    [][(pc = "sending" /\ retries = 3 /\ answers_500 = 3
            /\ response'.kind = "http" /\ response'.status = 200)
        => /\ pc' = "loop"
           /\ raised' = "none"
           /\ retries' = 3
           /\ error_rows' = error_rows
           /\ errors' = errors
           /\ requests' = requests
           /\ Len(requests) = 1 => (error_rows' = <<>> /\ ~errors')]_vars

\* the first request of a run was answered 500, 500, 500 and 200, and the run
\* ended normally with an empty error writer
C6_Witness ==
    /\ pc = "done"
    /\ Len(requests) = 1
    /\ retries = 3
    /\ answers_500 = 3
    /\ response.status = 200
    /\ error_rows = <<>>
    /\ ~errors

\* the rows of the input with an empty value in column col
EmptyAt(col) == {i \in 1..Len(data) : Falsy(data[i][col])}
\* the smallest of a non-empty set of numbers
Least(S) == CHOOSE i \in S : \A j \in S : i <= j
\* the full batches before the batch of row i
BatchesBefore(i) == (i - 1) \div BATCH_SIZE

IsCompanyCreate == entry = "client" /\ endpoint = "company_create"

\* C7, as claimed: for company_create, when a row of the input has an empty
\* name, the run aborts with a validation error and no request has been sent
\* at that moment.
C7_NoRequestBeforeNameError ==
    (IsCompanyCreate /\ EmptyAt("name") # {}) =>
        /\ pc # "done"
        /\ raised = "UserException" => requests = <<>>

\* C7, amended: for company_create, when a row of the input has an empty name,
\* the run never ends normally; no request is ever sent for the batch of the
\* first such row or for a later batch; and when the wrapper reaches that batch
\* the run aborts with the validation error, the requests sent being exactly
\* those of the full batches before it: none when the row is among the first
\* batch_size rows.
C7_NameErrorStopsAtItsBatch ==
    (IsCompanyCreate /\ EmptyAt("name") # {}) =>
        LET before == BatchesBefore(Least(EmptyAt("name")))
        IN  /\ pc # "done"
            /\ Len(requests) <= before
            /\ pos > before * BATCH_SIZE => (pc = "raised" /\ raised = "UserException")
            /\ raised = "UserException" =>
                 /\ Len(requests) = before
                 /\ \A i \in 1..Len(requests) : BatchLen(i) = BATCH_SIZE
            /\ (Least(EmptyAt("name")) <= BATCH_SIZE) => requests = <<>>

\* the input [{name: "Acme"}, {name: ""}] has aborted with the validation
\* error, no request sent
C7_Witness ==
    /\ IsCompanyCreate
    /\ data = <<("name" :> "Acme"), ("name" :> "")>>
    /\ pc = "raised"
    /\ raised = "UserException"
    /\ requests = <<>>

\* C8: for every list-membership operation, when a row anywhere in the input
\* has an empty list_id, no request is ever sent and the run ends with the
\* validation error at its first statement.
C8_EmptyListIdSendsNothing ==
    (entry = "client" /\ endpoint \in DOMAIN endpoints
        /\ ImplClass(endpoints[endpoint]) \in ListClasses
        /\ EmptyAt("list_id") # {}) =>
        /\ requests = <<>>
        /\ rows_by_list_id = <<>>
        /\ pc \in {"start", "call", "raised"}
        /\ pc = "raised" => raised = "UserException"

\* a list operation has aborted on an input whose last row alone has an empty
\* list_id
C8_Witness ==
    /\ entry = "client"
    /\ handler # "none"
    /\ ImplClass(handler) \in ListClasses
    /\ Len(data) = 3
    /\ EmptyAt("list_id") = {3}
    /\ EmptyAt("vids") = {}
    /\ pc = "raised"
    /\ raised = "UserException"
    /\ requests = <<>>

UpdateClasses == {"UpdateContact", "UpdateCompany", "UpdateObject"}
IsUpdate == entry = "client" /\ handler # "none" /\ ImplClass(handler) \in UpdateClasses

\* C10: for an update-by-id operation, the j-th entry of the i-th request is
\* made of the row at that place of the input: the row's id column is not
\* empty, the entry's `id` is its value, and `properties` has exactly the
\* row's other columns, with their values, and not the id column; every
\* request has one entry per row of its batch.  A batch with a row whose id
\* column is empty raises the validation error and is not sent, so a run that
\* ends normally had no such row and sent every row in exactly one entry.
C10_UpdateEntries ==
    IsUpdate =>
        LET idcol == CheckedColumn(handler)
        IN  /\ \A i \in 1..Len(requests) : \A j \in 1..BatchLen(i) :
                 LET row == data[(i - 1) * BATCH_SIZE + j]
                     ent == requests[i].body.inputs[j]
                 IN  /\ ~Falsy(row[idcol])
                     /\ DOMAIN ent = {"id", "properties"}
                     /\ ent.id = row[idcol]
                     /\ DOMAIN ent.properties = DOMAIN row \ {idcol}
                     /\ idcol \notin DOMAIN ent.properties
                     /\ \A c \in DOMAIN ent.properties : ent.properties[c] = Str(row[c])
            /\ \A i \in EmptyAt(idcol) : Len(requests) <= BatchesBefore(i)
            /\ (EmptyAt(idcol) # {} /\ pos > BatchesBefore(Least(EmptyAt(idcol))) * BATCH_SIZE)
                 => (pc = "raised" /\ raised = "UserException")
            /\ pc = "done" =>
                 /\ EmptyAt(idcol) = {}
                 /\ Len(SentInputs(Len(requests))) = Len(data)

\* deal_update has sent three rows in two requests and ended normally
C10_Witness ==
    /\ IsUpdate
    /\ endpoint = "deal_update"
    /\ pc = "done"
    /\ Len(data) = 3
    /\ Len(requests) = 2
    /\ requests[2].body.inputs[1].id = data[3]["deal_id"]
    /\ DOMAIN requests[2].body.inputs[1].properties = {"prop"}

\* the three association columns of a create-with-association row
AssociationColumns == {"association_id", "association_category", "association_type_id"}
IsCreateAssociated ==
    entry = "client" /\ handler # "none" /\ ImplClass(handler) = "CreateAssociatedObject"

\* C11: for a create-with-association operation, the j-th entry of the i-th
\* request is made of the row at that place of the input: it has the keys
\* `associations` and `properties` alone, the one association holds the row's
\* association_id, association_category and association_type_id, and
\* `properties` has exactly the row's other columns, with their values, and
\* none of the three association columns.
C11_AssociationColumnsLeaveProperties ==
    IsCreateAssociated =>
        \A i \in 1..Len(requests) : \A j \in 1..BatchLen(i) :
            LET row == data[(i - 1) * BATCH_SIZE + j]
                ent == requests[i].body.inputs[j]
                assoc == ent.associations[1]
            IN  /\ DOMAIN ent = {"associations", "properties"}
                /\ Len(ent.associations) = 1
                /\ assoc.to.id = row["association_id"]
                /\ Len(assoc.types) = 1
                /\ assoc.types[1].associationCategory = row["association_category"]
                /\ assoc.types[1].associationTypeId = row["association_type_id"]
                /\ DOMAIN ent.properties = DOMAIN row \ AssociationColumns
                /\ DOMAIN ent.properties \cap AssociationColumns = {}
                /\ \A c \in DOMAIN ent.properties : ent.properties[c] = row[c]

\* ticket_create has sent three rows in two requests and ended normally, the
\* last entry with the one property of its row
C11_Witness ==
    /\ IsCreateAssociated
    /\ endpoint = "ticket_create"
    /\ pc = "done"
    /\ Len(data) = 3
    /\ Len(requests) = 2
    /\ requests[2].body.inputs[1].associations[1].to.id = data[3]["association_id"]
    /\ DOMAIN requests[2].body.inputs[1].properties = {"prop"}

IsAddContactToList ==
    entry = "client" /\ handler # "none" /\ ImplClass(handler) = "AddContactToList"
\* the rows of the input with list_id id, in input order
RowsOfList(id) == SelectSeq(data, LAMBDA r : r["list_id"] = id)
\* column col of the rows of a sequence, in order
Column(rows, col) == [i \in 1..Len(rows) |-> rows[i][col]]

\* C12: for contact_add_to_list, the request of a list_id group has as `vids`
\* the non-empty vids values of the group's rows and as `emails` the emails
\* values of the group's rows whose vids is empty, both in input order: a row
\* with a vid and an email gives its vid alone.  No two requests are of the
\* same list_id, and in a run that ended normally every list_id of the input
\* has its request, so that the vids of all requests together are the
\* non-empty vids values of the input.
C12_VidsHavePriorityOverEmails ==
    IsAddContactToList =>
        /\ \A g \in 1..Len(requests) :
             LET rows == RowsOfList(requests[g].url.arg)
                 body == requests[g].body
             IN  /\ rows # <<>>
                 /\ DOMAIN body = {"vids", "emails"}
                 /\ body.vids = Column(SelectSeq(rows, LAMBDA r : r["vids"] # ""), "vids")
                 /\ body.emails = Column(SelectSeq(rows, LAMBDA r : r["vids"] = ""), "emails")
                 /\ Len(body.vids) + Len(body.emails) = Len(rows)
                 /\ \A h \in 1..Len(requests) :
                      requests[h].url.arg = requests[g].url.arg => h = g
        /\ pc = "done" =>
             /\ {requests[g].url.arg : g \in 1..Len(requests)}
                  = {data[i]["list_id"] : i \in 1..Len(data)}
             /\ UNION {Range(requests[g].body.vids) : g \in 1..Len(requests)}
                  = {data[i]["vids"] : i \in 1..Len(data)} \ {""}

\* contact_add_to_list has ended normally on two lists, the first with a row
\* of a vid and an email and a row of an email alone
C12_Witness ==
    /\ IsAddContactToList
    /\ pc = "done"
    /\ data = <<[list_id |-> "1", vids |-> "7", emails |-> "b@x"],
                [list_id |-> "2", vids |-> "8", emails |-> ""],
                [list_id |-> "1", vids |-> "", emails |-> "a@x"]>>
    /\ Len(requests) = 2
    /\ requests[1].body = [vids |-> <<"7">>, emails |-> <<"a@x">>]
    /\ requests[2].body = [vids |-> <<"8">>, emails |-> <<>>]

IsRemove == entry = "client" /\ handler # "none" /\ ImplClass(handler) = "RemoveObject"
\* the ids submitted for removal so far, in the order sent
SentIds == Column(SentInputs(Len(requests)), "id")

\* C13: a remove-by-id operation submits each distinct id of its input once:
\* no id is in two entries of the archive payloads sent, and a run that ended
\* normally has submitted as many entries as the input has distinct ids.
C13_RemoveSubmitsEachIdOnce ==
    IsRemove =>
        /\ \A i, j \in 1..Len(SentIds) : SentIds[i] = SentIds[j] => i = j
        /\ pc = "done" =>
             Len(SentIds) = Cardinality({data[i][IdColumnOf[object_type[handler]]] : i \in 1..Len(data)})

\* C14: in every run, a request is handed to the session only after one
\* authentication probe has been made and has succeeded; a run whose probe
\* failed has ended with an exception.
C14_ProbePrecedesEveryWrite ==
    /\ requests # <<>> => (Len(probes) = 1 /\ probes[1] \in {200, 201})
    /\ (probes # <<>> /\ probes[1] \notin {200, 201}) => (pc = "raised" /\ requests = <<>>)

IsClientRun == entry = "client" /\ handler # "none"
\* the number of row identifiers in the body of a list-membership request
Carried(body) ==
    CASE "emails" \in DOMAIN body -> Len(body.vids) + Len(body.emails)
      [] "vids" \in DOMAIN body -> Len(body.vids)
      [] "recordIdsToAdd" \in DOMAIN body -> Len(body.recordIdsToAdd)
      [] "recordIdsToRemove" \in DOMAIN body -> Len(body.recordIdsToRemove)

\* C15: a run of client.run is in its final state "done" only when its loop
\* has consumed the whole input, whatever the responses were and however many
\* rows the error writer got, and then every row of the input is in exactly
\* one request: for a batched operation the entries sent are those of the rows,
\* one each, in input order; for a per-row operation request i is that of row
\* i; for a list-membership operation every row's list_id has exactly one
\* request, which carries as many identifiers as the input has rows of that
\* list_id.
C15_DoneOnlyAfterAllInput ==
    (IsClientRun /\ pc = "done") =>
        /\ raised = "none"
        /\ ImplClass(handler) \in BatchedClasses =>
             /\ pos = Len(data)
             /\ SentInputs(Len(requests)) = [j \in 1..Len(data) |-> entry_of(handler, data[j])]
        /\ ImplClass(handler) \in RowClasses =>
             /\ pos = Len(data)
             /\ Len(requests) = Len(data)
             /\ \A i \in 1..Len(data) :
                  /\ requests[i].body = row_request(handler, data[i]).body
                  /\ requests[i].url.arg = row_request(handler, data[i]).arg
        /\ ImplClass(handler) \in ListClasses =>
             /\ pos = Len(rows_by_list_id)
             /\ \A i \in 1..Len(data) :
                  Cardinality({g \in 1..Len(requests) :
                                  requests[g].url.arg = data[i]["list_id"]}) = 1
             /\ \A g \in 1..Len(requests) :
                  Carried(requests[g].body) = Len(RowsOfList(requests[g].url.arg))

\* contact_create has ended normally on five rows in three requests, one
\* answered 200, one 207 with a failing item and one rejected with 400: two
\* rows are in the error writer
C15_Witness ==
    /\ IsClientRun
    /\ endpoint = "contact_create"
    /\ pc = "done"
    /\ Len(data) = 2 * BATCH_SIZE + 1
    /\ Len(requests) = 3
    /\ response.status = 400
    /\ error_rows = <<ItemError(1), log_errors(response)>>
    /\ errors

\* whether request g carries row i of the input
Carries(g, i) ==
    CASE ImplClass(handler) \in BatchedClasses ->
            (g - 1) * BATCH_SIZE < i /\ i <= (g - 1) * BATCH_SIZE + BatchLen(g)
      [] ImplClass(handler) \in RowClasses -> g = i
      [] ImplClass(handler) \in ListClasses -> requests[g].url.arg = data[i]["list_id"]
\* the first row of the input with list_id id
FirstRow(id) == Least({i \in 1..Len(data) : data[i]["list_id"] = id})

\* C16, as claimed: for every operation, when row i precedes row j in the
\* input and a request carrying row j has been issued, a request carrying row
\* i was issued no later.
C16_RequestsFollowRowOrder ==
    IsClientRun =>
        \A j \in 1..Len(data) : \A i \in 1..(j - 1) : \A h \in 1..Len(requests) :
            Carries(h, j) => \E g \in 1..h : Carries(g, i)

\* the row order of C16, for the batched and the per-row operations
RowOrderHolds ==
    (IsClientRun /\ ImplClass(handler) \notin ListClasses) =>
        \A j \in 1..Len(data) : \A i \in 1..(j - 1) : \A h \in 1..Len(requests) :
            Carries(h, j) => \E g \in 1..h : Carries(g, i)
\* the order of the list-membership operations: a request per list_id, in the
\* order of the first rows of the list_ids, its identifiers in row order
GroupOrderHolds ==
    (IsClientRun /\ ImplClass(handler) \in ListClasses) =>
        /\ \A g, h \in 1..Len(requests) :
             g < h => FirstRow(requests[g].url.arg) < FirstRow(requests[h].url.arg)
        /\ \A g \in 1..Len(requests) :
             LET rows == RowsOfList(requests[g].url.arg)
                 body == requests[g].body
             IN  CASE "emails" \in DOMAIN body ->
                        body.vids = Column(SelectSeq(rows, LAMBDA r : r["vids"] # ""), "vids")
                   [] "vids" \in DOMAIN body -> body.vids = Column(rows, "vids")
                   [] "recordIdsToAdd" \in DOMAIN body ->
                        body.recordIdsToAdd = Column(rows, "vids")
                   [] "recordIdsToRemove" \in DOMAIN body ->
                        body.recordIdsToRemove = Column(rows, "vids")
\* a request is issued only from the loop, one at a time, when the call of the
\* one before it has ended, and an issued request is never changed
OneRequestAtATime ==
    requests' # requests =>
        /\ pc = "loop" /\ pc' = "sending"
        /\ requests' = Append(requests, requests'[Len(requests')])

\* C16, amended: requests are issued one at a time.  For a batched or per-row
\* operation, when row i precedes row j and a request carrying row j has been
\* issued, a request carrying row i was issued no later.  For a
\* list-membership operation the requests follow the order in which the
\* list_ids first occur in the input, and the identifiers inside a request
\* follow row order; a row may be carried by a request issued before that of
\* a row that precedes it on another list.
C16_RequestsFollowRowOrGroupOrder ==
    /\ []RowOrderHolds
    /\ []GroupOrderHolds
    /\ [][OneRequestAtATime]_vars

\* a list-membership operation has ended normally on rows of the lists 1, 2
\* and 1: its first request carries the rows 1 and 3, its second the row 2
C16_Witness ==
    /\ IsClientRun
    /\ ImplClass(handler) \in ListClasses
    /\ pc = "done"
    /\ Column(data, "list_id") = <<"1", "2", "1">>
    /\ Len(requests) = 2
    /\ requests[1].url.arg = "1" /\ Carried(requests[1].body) = 2
    /\ requests[2].url.arg = "2" /\ Carried(requests[2].body) = 1

\* the rows the response of a call that returned adds to the error writer
RowsOfResponse(resp) ==
    IF raise_for_status(resp.status) THEN <<log_errors(resp)>>
    ELSE IF IsBatchRequest /\ resp.status = 207 THEN resp.errors
    ELSE <<>>

\* C17: every step leaves the rows already in the error writer as they are,
\* in their order, and a set error flag set; rows are added only when a call
\* returns with a response, behind the rows of the earlier requests, and are
\* that response's rows, those of a 207 in the order of its `errors` array.
C17_ErrorSinkOnlyGrows ==
    [][/\ Len(error_rows') >= Len(error_rows)
       /\ SubSeq(error_rows', 1, Len(error_rows)) = error_rows
       /\ errors => errors'
       /\ error_rows' # error_rows =>
            /\ CallReturns
            /\ error_rows' = error_rows \o RowsOfResponse(response')]_vars

\* the first request of a run was rejected and the second answered 207 with
\* two failing items: the error writer has the three rows in that order
C17_Witness ==
    /\ IsClientRun
    /\ Len(requests) = 2
    /\ pc = "loop"
    /\ response.status = 207
    /\ Len(error_rows) = 3
    /\ error_rows[1] = log_errors(Http(400, TRUE, FALSE, ErrorBodyFull, <<>>))
    /\ SubSeq(error_rows, 2, 3) = <<ItemError(1), ItemError(2)>>
    /\ errors

\* the statuses C18 names
TransientStatuses == status_forcelist \cup {429}

\* C18: while retries are left, the session sends the request in flight again
\* exactly when the response's status is one of 500, 502, 503, 504, 521 and
\* 429; and it never uses more than 5 retries for a request.
C18_RetriesExactlyOnTransientStatus ==
    [][(pc = "sending" /\ response'.kind = "http")
        => /\ retries' <= RETRY_TOTAL
           /\ retries < RETRY_TOTAL =>
                ((pc' = "sending" /\ retries' = retries + 1)
                    <=> response'.status \in TransientStatuses)]_vars

\* what holds of C18's case in the code: a request is attempted at most
\* 1 + 5 times, a status of the forcelist is always retried while retries are
\* left, and no more requests are issued than the input has rows
C18_AttemptsAreBounded ==
    /\ []((retries <= RETRY_TOTAL) /\ (Len(requests) <= Len(data)))
    /\ [][(pc = "sending" /\ response'.kind = "http" /\ retries < RETRY_TOTAL
              /\ response'.status \in status_forcelist)
            => (pc' = "sending" /\ retries' = retries + 1)]_vars

\* C19: for a batched operation, when a request is issued, a sleep has taken
\* place after every request issued before it, the tail batch's request
\* included among those so preceded: the sleeps made are as many as the
\* requests before it, and every one of those was of a full batch.
C19_SleepBetweenBatches ==
    [][(IsClientRun /\ IsBatchRequest /\ requests' # requests)
        => /\ sleeps = Len(requests)
           /\ sleeps' = sleeps
           /\ \A i \in 1..Len(requests) : BatchLen(i) = BATCH_SIZE]_vars

\* contact_create has just issued the request of its tail batch, the third
\* request, after two sleeps
C19_Witness ==
    /\ IsClientRun
    /\ endpoint = "contact_create"
    /\ pc = "sending"
    /\ Len(requests) = 3
    /\ BatchLen(3) < BATCH_SIZE
    /\ retries = 0
    /\ sleeps = 2

\* C20: when the response make_request receives is a rejection whose body is
\* not the JSON error object, exactly one row is written to the error writer,
\* no exception leaves the dispatcher, and the loop goes on to the next batch,
\* row or group.
C20_UnparseableRejectionIsLogged ==
    [][(CallEnds /\ response'.kind = "http" /\ raise_for_status(response'.status)
            /\ ~response'.parseable /\ raised' # "RetryError")
        => /\ Len(error_rows') = Len(error_rows) + 1
           /\ raised' = "none"
           /\ pc' = "loop"]_vars

IsUnitRun == IsClientRun /\ ImplClass(handler) \in RowClasses \cup ListClasses
\* whether no row of the input fails a check of the handler's process_requests
ValidUnitInput ==
    CASE ImplClass(handler) = "CreateContactList" -> TRUE
      [] ImplClass(handler) = "CreateCustomList" ->
            \A i \in 1..Len(data) : data[i]["object_type"] \in DOMAIN object_types_to_id
      [] ImplClass(handler) = "UpdateContactByEmail" -> EmptyAt("email") = {}
      [] ImplClass(handler) = "AddContactToList" -> EmptyAt("list_id") = {}
      [] OTHER -> EmptyAt("list_id") = {} /\ EmptyAt("vids") = {}
\* the units of the input: its rows, or its distinct list_ids
Units ==
    IF ImplClass(handler) \in RowClasses THEN Len(data)
    ELSE Cardinality({data[i]["list_id"] : i \in 1..Len(data)})
\* one request per unit consumed, and at normal end one per unit of the input,
\* a group's request carrying the identifiers of all and only its rows
OneRequestPerUnit ==
    /\ raised \notin {"KeyError", "UserException"}
    /\ pc \in {"loop", "sending", "done"} => Len(requests) = pos
    /\ pc = "done" => Len(requests) = Units
    /\ ImplClass(handler) \in ListClasses =>
         \A g \in 1..Len(requests) :
             /\ Carried(requests[g].body) = Len(RowsOfList(requests[g].url.arg))
             /\ \A h \in 1..Len(requests) :
                  requests[h].url.arg = requests[g].url.arg => h = g

\* C21: a per-row operation (list_create, custom_list_create,
\* contact_update_by_email) on an input that passes its checks sends one
\* request per row, and a list-membership operation one request per distinct
\* list_id, which carries the identifiers of all and only the rows of that
\* list_id; no lookup fails on the way.
C21_OneRequestPerUnit ==
    (IsUnitRun /\ ValidUnitInput) => OneRequestPerUnit

\* what holds of C21's case in the code: the operations whose name
\* ENDPOINT_MAPPING has
C21_HoldsOfMappedNames ==
    (IsUnitRun /\ ValidUnitInput /\ endpoint \in DOMAIN ENDPOINT_MAPPING) => OneRequestPerUnit

\* whether the input passes the checks of a per-row or list-membership handler
\* (the batched handlers look no key up but their checked column)
ValidUnitInputOrOther == ImplClass(handler) \in BatchedClasses \/ ValidUnitInput

\* C22: get_factory and ENDPOINT_MAPPING know the same names: a run whose
\* handler get_factory has constructed is of a name ENDPOINT_MAPPING has, so
\* the lookup of its url template and method does not fail, and every name of
\* ENDPOINT_MAPPING has a handler.
C22_FactoryAndRegistryAgree ==
    /\ IsClientRun =>
         /\ endpoint \in DOMAIN ENDPOINT_MAPPING
         /\ (requests = <<>> /\ ValidUnitInputOrOther) => raised # "KeyError"
    /\ \A name \in DOMAIN ENDPOINT_MAPPING : get_factory(name) # "none"

\* what holds of C22's case in the code: every name of ENDPOINT_MAPPING has a
\* handler, and a run of such a name on an input that passes the handler's
\* checks never ends with KeyError
C22_RegistryNamesHaveHandlers ==
    /\ \A name \in DOMAIN ENDPOINT_MAPPING : get_factory(name) # "none"
    /\ (IsClientRun /\ endpoint \in DOMAIN ENDPOINT_MAPPING /\ ValidUnitInputOrOther)
         => raised # "KeyError"

\* C23: in every state of a run the error flag of the error writer is set if
\* and only if at least one row has been written to it.
C23_FlagIffRecord == errors <=> error_rows # <<>>

\* what holds of C23's case in the code: a written row always sets the flag,
\* and a set flag without a row comes only of a 207 answer with no errors or of
\* a rejection whose body is not JSON
C23_RecordSetsFlag ==
    /\ [](error_rows # <<>> => errors)
    /\ [][(errors' /\ error_rows' = <<>> /\ ~errors)
            => /\ CallEnds
               /\ \/ response'.status = 207 /\ response'.errors = <<>>
                  \/ raise_for_status(response'.status) /\ ~response'.parseable]_vars

\* C24: in Component.run, a name validate_user_input accepts is one a branch
\* of _construct_request_body compares endpoint with, and a run that has ended
\* normally on a table with rows has sent at least one request.
C24_AcceptedNameIsDispatched ==
    entry = "component" =>
        /\ pc \in {"validated", "done"} => endpoint \in LegacyBranches
        /\ (pc = "done" /\ in_tables >= 1 /\ data # <<>>) => requests # <<>>

\* what holds of C24's case in the code: no name validate_user_input accepts
\* has a branch, and Component.run never sends a request
C24_NoAcceptedNameHasABranch ==
    /\ DOMAIN ENDPOINT_MAPPING \cap LegacyBranches = {}
    /\ entry = "component" => requests = <<>>
====
